---------------------------- MODULE Spec2Model ----------------------------
(***************************************************************************)
(* A model of s3-compare.py: the staging copier of an S3 inventory        *)
(* (Inventory.copy_latest_partition_to_work_area), the Athena table       *)
(* registrar (Inventory.create_athena_table), the join/diff queries        *)
(* (Compare.create_inventories_join_table, Compare.find_missing_keys) and  *)
(* the pipeline (Runner.run).                                              *)
(*                                                                         *)
(* Python strings are sequences of one-character strings, so that          *)
(* str.replace, str.strip and sorted() are computed the way Python         *)
(* computes them.                                                          *)
(***************************************************************************)
EXTENDS Integers, Sequences, FiniteSets, TLC

VARIABLES
    rw_inv,        \* rewrite check: the Inventory (bucket, path, compared_bucket)
    rw_work,       \* rewrite check: the Work area (bucket, path)
    rw_rest,       \* rewrite check: <rest> of the manifest line
    rw_out,        \* rewrite check: new_s3_path, once computed (empty before)
    cp_src,        \* copier: the lines of local_src_symlink_path
    cp_pos,        \* copier: index of the next line of f_src to read
    cp_dst,        \* copier: the lines written to local_dst_symlink_path
    cp_futures,    \* copier: the futures list, [src, dst, st]
    cp_join,       \* copier: index of the future whose result() is awaited
    cp_pc,         \* copier: position of the calling thread
    cp_uploaded,   \* copier: the manifests uploaded to the work bucket
    cp_completed,  \* copier: the futures in the order their copies returned
    inventories,   \* pipeline: <<left_inventory, right_inventory>>
    inv_keys,      \* pipeline: the object keys each inventory's latest partition lists
    listing,       \* pipeline: what list_objects_v2 answers for each inventory
    staged,        \* pipeline: the work bucket, work_path -> [keys, manifest]
    catalog,       \* pipeline: the Athena catalog, table name -> definition
    catalog0,      \* pipeline: the catalog as the first operation found it
    out_file,      \* pipeline: <workdir>/00-find_table_missing_keys, [exists, lines]
    cursor,        \* pipeline: the rows the open cursor has still to yield
    missing_in,    \* pipeline: Runner.run's argument
    skip_setup,    \* pipeline: Runner.run's argument
    skip_create_join_table,  \* pipeline: Runner.run's argument
    plan,          \* pipeline: the operations this run executes, in order
    step,          \* pipeline: index in plan of the next operation
    status,        \* pipeline: "idle", "running", "done" or "error"
    runs,          \* pipeline: the number of runs started
    latest_partition,  \* pipeline: what get_latest_partition returned, per inventory
    ops,           \* pipeline: the operations this run has executed, in order
    failed_op,     \* pipeline: the operation that raised in this run, or NoFailure
    reported       \* pipeline: per missing_in, the last result of a run that built its join table

rwVars == <<rw_inv, rw_work, rw_rest, rw_out>>
cpVars == <<cp_src, cp_pos, cp_dst, cp_futures, cp_join, cp_pc, cp_uploaded,
           cp_completed>>
runVars == <<inventories, inv_keys, listing, staged, catalog, catalog0, out_file, cursor,
            missing_in, skip_setup, skip_create_join_table, plan, step, status, runs,
            latest_partition, ops, failed_op, reported>>
vars == <<rwVars, cpVars, runVars>>

None == "None"
NoFile == [exists |-> FALSE, lines |-> << >>]
NoKey == << >>
NoFailure == [op |-> None, i |-> 0, exception |-> None]

-----------------------------------------------------------------------------
(* Python string operations *)

\* s[i : i + len(old)] == old
StartsWithAt(s, old, i) ==
    /\ i + Len(old) - 1 <= Len(s)
    /\ SubSeq(s, i, i + Len(old) - 1) = old

RECURSIVE ReplaceFrom(_, _, _, _)
ReplaceFrom(s, old, new, i) ==
    IF i > Len(s) THEN << >>
    ELSE IF StartsWithAt(s, old, i)
         THEN new \o ReplaceFrom(s, old, new, i + Len(old))
         ELSE <<s[i]>> \o ReplaceFrom(s, old, new, i + 1)

RECURSIVE Interleave(_, _, _)
Interleave(s, new, i) ==
    IF i > Len(s) THEN new
    ELSE new \o <<s[i]>> \o Interleave(s, new, i + 1)

\* str.replace(old, new): every non-overlapping occurrence, leftmost first;
\* an empty old matches before every character and at the end.
Replace(s, old, new) ==
    IF old = << >> THEN Interleave(s, new, 1) ELSE ReplaceFrom(s, old, new, 1)

IsSpace(c) == c \in {" ", "\n", "\t", "\r"}

RECURSIVE LStrip(_)
LStrip(s) ==
    IF s # << >> /\ IsSpace(Head(s)) THEN LStrip(Tail(s)) ELSE s

RECURSIVE RStrip(_)
RStrip(s) ==
    IF s # << >> /\ IsSpace(s[Len(s)]) THEN RStrip(SubSeq(s, 1, Len(s) - 1)) ELSE s

\* str.strip()
Strip(s) == RStrip(LStrip(s))

Slash == <<"/">>
S3Scheme == <<"s", "3", ":", "/", "/">>

-----------------------------------------------------------------------------
(* Inventory.__init__ and the path rewrite of the staging copier *)

\* self.work_path = f'{work.path}/{self.compared_bucket}'
work_path(inv, work) == work.path \o Slash \o inv.compared_bucket

\* s3_path.replace(self.bucket, self.work.bucket).replace(self.path, self.work_path)
new_s3_path(inv, work, s3_path) ==
    Replace(Replace(s3_path, inv.bucket, work.bucket), inv.path, work_path(inv, work))

\* A manifest line s3://<inventory bucket>/<inventory path>/<rest>
ManifestLine(inv, rest) == S3Scheme \o inv.bucket \o Slash \o inv.path \o Slash \o rest

\* The prefix substitution: s3://<work bucket>/<work path>/<compared bucket>/<rest>
PrefixSubstituted(inv, work, rest) ==
    S3Scheme \o work.bucket \o Slash \o work_path(inv, work) \o Slash \o rest

-----------------------------------------------------------------------------
(* Specification SpecRewrite: new_s3_path over bounded names *)

InvBuckets == {<<"i", "v">>, <<"a">>, <<"p">>}
InvPaths == {<<"p">>, <<"a">>, <<"w">>}
WorkBuckets == {<<"w">>, <<"w", "a">>}
WorkPaths == {<<"t">>}
ComparedBuckets == {<<"c">>, <<"a", "-", "b">>}
Rests == {<<"x">>, <<"p", "/", "x">>, <<"i", "v", ".", "x">>}

cpIdle ==
    /\ cp_src = << >>
    /\ cp_pos = 0
    /\ cp_dst = << >>
    /\ cp_futures = << >>
    /\ cp_join = 0
    /\ cp_pc = "idle"
    /\ cp_uploaded = {}
    /\ cp_completed = << >>

rwIdle ==
    /\ rw_inv = [bucket |-> << >>, path |-> << >>, compared_bucket |-> << >>]
    /\ rw_work = [bucket |-> << >>, path |-> << >>]
    /\ rw_rest = << >>
    /\ rw_out = << >>

runIdle ==
    /\ inventories = << >>
    /\ inv_keys = << >>
    /\ listing = << >>
    /\ staged = << >>
    /\ catalog = << >>
    /\ catalog0 = << >>
    /\ out_file = NoFile
    /\ cursor = {}
    /\ missing_in = None
    /\ skip_setup = FALSE
    /\ skip_create_join_table = FALSE
    /\ plan = << >>
    /\ step = 0
    /\ status = "idle"
    /\ runs = 0
    /\ latest_partition = << >>
    /\ ops = << >>
    /\ failed_op = NoFailure
    /\ reported = << >>

InitRewrite ==
    /\ rw_inv \in [bucket : InvBuckets, path : InvPaths, compared_bucket : ComparedBuckets]
    /\ rw_work \in [bucket : WorkBuckets, path : WorkPaths]
    /\ rw_rest \in Rests
    /\ rw_out = << >>
    /\ cpIdle
    /\ runIdle

\* One pass of the loop body of copy_latest_partition_to_work_area on one line
RewriteLine ==
    /\ rw_out = << >>
    /\ rw_out' = new_s3_path(rw_inv, rw_work, ManifestLine(rw_inv, rw_rest))
    /\ UNCHANGED <<rw_inv, rw_work, rw_rest, cpVars, runVars>>

NextRewrite == RewriteLine

SpecRewrite == InitRewrite /\ [][NextRewrite]_vars

\* C8: every manifest line s3://<inventory bucket>/<inventory path>/<rest> is
\* rewritten to s3://<work bucket>/<work path>/<compared bucket>/<rest>, also
\* when the bucket name or the path occurs inside <rest>, inside the work
\* bucket name or inside each other.
C8_PureSubstitution ==
    rw_out # << >> => rw_out = PrefixSubstituted(rw_inv, rw_work, rw_rest)

-----------------------------------------------------------------------------
(* Specification SpecCopy: Inventory.copy_latest_partition_to_work_area,     *)
(* the calling thread and the ThreadPoolExecutor's workers                   *)

MaxLines == 3
num_workers == 100

cp_inv == [bucket |-> <<"i", "v">>, path |-> <<"p">>, compared_bucket |-> <<"c">>]
cp_work == [bucket |-> <<"w">>, path |-> <<"t">>]

\* The lines a manifest is made of, as iterating the file yields them
BlankLine == <<" ", "\n">>
LineChoices ==
    { BlankLine,
      ManifestLine(cp_inv, <<"x">>) \o <<"\n">>,
      <<" ">> \o ManifestLine(cp_inv, <<"y">>) \o <<"\n">> }

Manifests == UNION { [1..n -> LineChoices] : n \in 0..MaxLines }

Finished(fut) == fut.st \in {"ok", "failed"}
Running == { i \in DOMAIN cp_futures : cp_futures[i].st = "running" }

InitCopy ==
    /\ cp_src \in Manifests
    /\ cp_pos = 1
    /\ cp_dst = << >>
    /\ cp_futures = << >>
    /\ cp_join = 0
    /\ cp_pc = "loop"
    /\ cp_uploaded = {}
    /\ cp_completed = << >>
    /\ rwIdle
    /\ runIdle

\* ReadLine without the `continue` on an empty line
ReadLine_NoSkip ==
    /\ cp_pc = "loop"
    /\ cp_pos <= Len(cp_src)
    /\ LET s3_path == Strip(cp_src[cp_pos])
           new == new_s3_path(cp_inv, cp_work, s3_path)
       IN  /\ cp_dst' = Append(cp_dst, new \o <<"\n">>)
           /\ cp_futures' = Append(cp_futures,
                                   [src |-> s3_path, dst |-> new, st |-> "pending"])
    /\ cp_pos' = cp_pos + 1
    /\ UNCHANGED <<cp_src, cp_join, cp_pc, cp_uploaded, cp_completed, rwVars, runVars>>

\* for s3_path in f_src: strip, skip an empty line, write the rewritten line,
\* submit the copy
ReadLine ==
    /\ cp_pc = "loop"
    /\ cp_pos <= Len(cp_src)
    /\ LET s3_path == Strip(cp_src[cp_pos])
           new == new_s3_path(cp_inv, cp_work, s3_path)
       IN  IF s3_path = << >>
           THEN UNCHANGED <<cp_dst, cp_futures>>
           ELSE /\ cp_dst' = Append(cp_dst, new \o <<"\n">>)
                /\ cp_futures' = Append(cp_futures,
                                        [src |-> s3_path, dst |-> new, st |-> "pending"])
    /\ cp_pos' = cp_pos + 1
    /\ UNCHANGED <<cp_src, cp_join, cp_pc, cp_uploaded, cp_completed, rwVars, runVars>>

\* f_src is exhausted: the loop over the futures starts
EndOfFile ==
    /\ cp_pc = "loop"
    /\ cp_pos > Len(cp_src)
    /\ cp_pc' = "join"
    /\ cp_join' = 1
    /\ UNCHANGED <<cp_src, cp_pos, cp_dst, cp_futures, cp_uploaded, cp_completed, rwVars, runVars>>

\* AwaitResult waiting for the future without raising its exception
AwaitResult_Swallow ==
    /\ cp_pc = "join"
    /\ cp_join <= Len(cp_futures)
    /\ Finished(cp_futures[cp_join])
    /\ cp_join' = cp_join + 1
    /\ UNCHANGED <<cp_src, cp_pos, cp_dst, cp_futures, cp_pc, cp_uploaded, cp_completed,
                   rwVars, runVars>>

\* future.result() of the next future: returns once it has finished, raises
\* the copy's exception if it failed
AwaitResult ==
    /\ cp_pc = "join"
    /\ cp_join <= Len(cp_futures)
    /\ Finished(cp_futures[cp_join])
    /\ IF cp_futures[cp_join].st = "ok"
       THEN cp_join' = cp_join + 1 /\ cp_pc' = cp_pc
       ELSE cp_join' = cp_join /\ cp_pc' = "raise"
    /\ UNCHANGED <<cp_src, cp_pos, cp_dst, cp_futures, cp_uploaded, cp_completed, rwVars, runVars>>

\* Leaving the with block: the files are closed and executor.__exit__ waits
\* for every submitted copy, whether an exception is in flight or not
ExitWith ==
    /\ \/ cp_pc = "join" /\ cp_join > Len(cp_futures) /\ cp_pc' = "upload"
       \/ cp_pc = "raise" /\ cp_pc' = "error"
    /\ \A i \in DOMAIN cp_futures : Finished(cp_futures[i])
    /\ UNCHANGED <<cp_src, cp_pos, cp_dst, cp_futures, cp_join, cp_uploaded, cp_completed, rwVars, runVars>>

\* self.s3.upload_file(local_dst_symlink_path, ...)
UploadManifest ==
    /\ cp_pc = "upload"
    /\ cp_uploaded' = {cp_dst}
    /\ cp_pc' = "done"
    /\ UNCHANGED <<cp_src, cp_pos, cp_dst, cp_futures, cp_join, cp_completed, rwVars, runVars>>

UploadFails ==
    /\ cp_pc = "upload"
    /\ cp_pc' = "error"
    /\ UNCHANGED <<cp_src, cp_pos, cp_dst, cp_futures, cp_join, cp_uploaded, cp_completed, rwVars, runVars>>

\* A worker takes a submitted copy and calls copy_s3
StartCopy(i) ==
    /\ cp_futures[i].st = "pending"
    /\ Cardinality(Running) < num_workers
    /\ cp_futures' = [cp_futures EXCEPT ![i].st = "running"]
    /\ UNCHANGED <<cp_src, cp_pos, cp_dst, cp_join, cp_pc, cp_uploaded, cp_completed, rwVars, runVars>>

\* copy_object returns
CopySucceeds(i) ==
    /\ cp_futures[i].st = "running"
    /\ cp_futures' = [cp_futures EXCEPT ![i].st = "ok"]
    /\ cp_completed' = Append(cp_completed, i)
    /\ UNCHANGED <<cp_src, cp_pos, cp_dst, cp_join, cp_pc, cp_uploaded, rwVars, runVars>>

\* copy_object raises
CopyFails(i) ==
    /\ cp_futures[i].st = "running"
    /\ cp_futures' = [cp_futures EXCEPT ![i].st = "failed"]
    /\ cp_completed' = Append(cp_completed, i)
    /\ UNCHANGED <<cp_src, cp_pos, cp_dst, cp_join, cp_pc, cp_uploaded, rwVars, runVars>>

Worker ==
    \E i \in DOMAIN cp_futures : StartCopy(i) \/ CopySucceeds(i) \/ CopyFails(i)

NextCopy ==
    \/ ReadLine
    \/ EndOfFile
    \/ AwaitResult
    \/ ExitWith
    \/ UploadManifest
    \/ UploadFails
    \/ Worker

SpecCopy == InitCopy /\ [][NextCopy]_vars

\* The lines of M that are not empty once stripped, stripped
NonEmptyLines(M) ==
    LET stripped == [i \in DOMAIN M |-> Strip(M[i])]
    IN  SelectSeq(stripped, LAMBDA l : l # << >>)

CopiesIssued == { i \in DOMAIN cp_futures : cp_futures[i].st # "pending" }

\* Every submitted copy has returned without an exception
NoCopyFailed == \A i \in DOMAIN cp_futures : cp_futures[i].st = "ok"

\* C2: when no copy fails, exactly one copy is issued per line of M that is
\* not empty (once stripped, as the loop tests it), and the uploaded manifest
\* has one line per such line, the i-th being the rewrite of the i-th, whatever
\* the order in which the workers' copies start and return.
C2_OneCopyPerLineInOrder ==
    LET lines == NonEmptyLines(cp_src)
    IN  /\ (cp_pc \in {"upload", "done"} \/ (cp_pc = "error" /\ NoCopyFailed)) =>
               /\ Len(cp_futures) = Len(lines)
               /\ Cardinality(CopiesIssued) = Len(lines)
               /\ \A i \in DOMAIN lines : cp_futures[i].src = lines[i]
        /\ cp_pc = "done" =>
               /\ Cardinality(cp_uploaded) = 1
               /\ \A m \in cp_uploaded :
                      /\ Len(m) = Len(lines)
                      /\ \A i \in DOMAIN lines :
                             m[i] = new_s3_path(cp_inv, cp_work, lines[i]) \o <<"\n">>

\* A manifest with a blank line between two paths was uploaded after the
\* second copy returned before the first.
C2_Witness ==
    /\ cp_pc = "done"
    /\ Len(cp_src) = 3
    /\ Strip(cp_src[2]) = << >>
    /\ \E m \in cp_uploaded : Len(m) = 2 /\ m[1] # m[2]
    /\ cp_completed = <<2, 1>>

\* C3: the rewritten manifest is uploaded only after every line was read and
\* every submitted copy returned without an exception; once a copy has
\* failed the upload is never reached.
C3_UploadOnlyAfterAllCopies ==
    /\ cp_pc \in {"upload", "done"} =>
           /\ cp_pos > Len(cp_src)
           /\ NoCopyFailed
    /\ cp_pc # "done" => cp_uploaded = {}
    /\ (\E i \in DOMAIN cp_futures : cp_futures[i].st = "failed") =>
           /\ cp_uploaded = {}
           /\ cp_pc \notin {"upload", "done"}

\* One copy failed after another succeeded, and the call ended with the
\* exception and without an upload.
C3_Witness ==
    /\ cp_pc = "error"
    /\ \E i, j \in DOMAIN cp_futures :
           cp_futures[i].st = "failed" /\ cp_futures[j].st = "ok"
    /\ cp_uploaded = {}

-----------------------------------------------------------------------------
(* The pipeline: Inventory, Compare and Runner                               *)

Keys == {"k1", "k2", "k3"}
KeySets == {{}, {"k1"}, {"k1", "k2"}, {"k2", "k3"}}
NULL == "NULL"
MaxRuns == 3

run_work == [bucket |-> <<"w">>, path |-> <<"t">>]

\* self.compared_bucket.replace('-', '_').replace('.', '_')
table_name_suffix(compared_bucket) ==
    Replace(Replace(compared_bucket, <<"-">>, <<"_">>), <<".">>, <<"_">>)

\* self.table_name = f's3_inventory_{table_name_suffix}'
table_name(inv) == <<"s3_inventory_">> \o table_name_suffix(inv.compared_bucket)

\* str.lower() on a join type
Lower(jt) ==
    CASE jt = "LEFT" -> "left"
      [] jt = "RIGHT" -> "right"
      [] OTHER -> jt

\* join_table_name without the direction in the name
join_table_name_NoDirection(jt) ==
    <<"s3_inventory_join_">>
        \o table_name_suffix(inventories[1].compared_bucket)
        \o <<"_">>
        \o table_name_suffix(inventories[2].compared_bucket)

\* Compare.join_table_name
join_table_name(jt) ==
    <<"s3_inventory_join_", Lower(jt), "_">>
        \o table_name_suffix(inventories[1].compared_bucket)
        \o <<"_">>
        \o table_name_suffix(inventories[2].compared_bucket)

\* join_type = 'left' if missing_in == 'right' else 'right'
join_type_of(m) == IF m = "right" THEN "left" ELSE "right"

join_type == join_type_of(missing_in)

(* Python's ordering of str, character by character by code point *)
Ord(c) ==
    CASE c = "/" -> 47
      [] c = "0" -> 48
      [] c = "1" -> 49
      [] c = "2" -> 50
      [] c = "=" -> 61
      [] c = "d" -> 100
      [] c = "t" -> 116

RECURSIVE StrLess(_, _)
StrLess(a, b) ==
    IF b = << >> THEN FALSE
    ELSE IF a = << >> THEN TRUE
    ELSE IF Ord(Head(a)) # Ord(Head(b)) THEN Ord(Head(a)) < Ord(Head(b))
    ELSE StrLess(Tail(a), Tail(b))

\* sorted(S) as a sequence
RECURSIVE Sorted(_)
Sorted(S) ==
    IF S = {} THEN << >>
    ELSE LET m == CHOOSE x \in S : \A y \in S \ {x} : StrLess(x, y)
         IN  <<m>> \o Sorted(S \ {m})

\* get_latest_partition taking the first key of the sorted listing
get_latest_partition_First(response) ==
    IF response.IsTruncated THEN [raised |-> "AssertionError", key |-> NoKey]
    ELSE IF response.Contents = {} THEN [raised |-> "KeyError", key |-> NoKey]
    ELSE [raised |-> None, key |-> Sorted(response.Contents)[1]]

\* Inventory.get_latest_partition on a list_objects_v2 response: the assert
\* raises on a truncated listing, response['Contents'] raises when the
\* listing is empty (the response carries no Contents then)
get_latest_partition(response) ==
    IF response.IsTruncated THEN [raised |-> "AssertionError", key |-> NoKey]
    ELSE IF response.Contents = {} THEN [raised |-> "KeyError", key |-> NoKey]
    ELSE LET keys == Sorted(response.Contents)
         IN  [raised |-> None, key |-> keys[Len(keys)]]

(* The operations of a run *)
Op(name, i) == [op |-> name, i |-> i]

\* Compare.copy_inventories_to_work_area
copy_inventories_to_work_area ==
    <<Op("list", 1), Op("download", 1), Op("copy", 1), Op("upload", 1),
      Op("list", 2), Op("download", 2), Op("copy", 2), Op("upload", 2)>>

\* Inventory.create_athena_table
create_athena_table(i) == <<Op("drop", i), Op("create", i), Op("msck", i)>>

\* Compare.create_inventories_athena_tables
create_inventories_athena_tables == create_athena_table(1) \o create_athena_table(2)

\* Compare.setup
setup == copy_inventories_to_work_area \o create_inventories_athena_tables

\* Compare.create_inventories_join_table
create_inventories_join_table == <<Op("join_drop", 0), Op("join_create", 0)>>

\* Runner.find_table_missing_keys
find_table_missing_keys == <<Op("open", 0), Op("execute", 0), Op("fetch", 0)>>

\* Runner.run calling setup whatever skip_setup says
run_plan_SetupAlways(no_setup, no_join) ==
    setup
        \o (IF ~no_join THEN create_inventories_join_table ELSE << >>)
        \o find_table_missing_keys

\* Runner.run: the operations it executes, in order
run_plan(no_setup, no_join) ==
    (IF ~no_setup THEN setup ELSE << >>)
        \o (IF ~no_join THEN create_inventories_join_table ELSE << >>)
        \o find_table_missing_keys

PhaseOf(o) ==
    IF o.op \in {"list", "download", "copy", "upload", "drop", "create", "msck"} THEN "SETUP"
    ELSE IF o.op \in {"join_drop", "join_create"} THEN "JOIN"
    ELSE "EXTRACT"

(* The Athena catalog and the tables' rows *)
Without(f, name) == [n \in DOMAIN f \ {name} |-> f[n]]
With(f, name, def) == (name :> def) @@ f

\* The external table create_athena_table declares
ExternalTable(inv) ==
    [kind |-> "external", location |-> work_path(inv, run_work), partitions |-> FALSE]

HasManifest(location) == location \in DOMAIN staged /\ staged[location].manifest

\* The keys a scan of an inventory table yields
Rows(t) ==
    IF t.kind = "external" /\ t.partitions /\ t.location \in DOMAIN staged
    THEN staged[t.location].keys
    ELSE {}

\* SELECT table1.key AS table1_key, table2.key AS table2_key
\* FROM table1 {join_type} JOIN table2 USING (key)
JoinRows(jt, T1, T2) ==
    IF Lower(jt) = "left"
    THEN { [table1_key |-> k, table2_key |-> IF k \in T2 THEN k ELSE NULL] : k \in T1 }
    ELSE { [table1_key |-> IF k \in T1 THEN k ELSE NULL, table2_key |-> k] : k \in T2 }

\* find_missing_keys with the two columns taken the wrong way round
find_missing_keys_Swapped(jt, rows) ==
    LET cols == IF Lower(jt) = "left"
                THEN [select_key |-> "table2_key", null_key |-> "table1_key"]
                ELSE [select_key |-> "table1_key", null_key |-> "table2_key"]
    IN  { r[cols.select_key] : r \in { x \in rows : x[cols.null_key] = NULL } }

\* Compare.find_missing_keys: SELECT {select_key} FROM t WHERE {null_key} IS NULL
find_missing_keys(jt, rows) ==
    LET cols == IF Lower(jt) = "left"
                THEN [select_key |-> "table1_key", null_key |-> "table2_key"]
                ELSE [select_key |-> "table2_key", null_key |-> "table1_key"]
    IN  { r[cols.select_key] : r \in { x \in rows : x[cols.null_key] = NULL } }

(* Control: the operation at plan[step] returns, or raises *)
At(name) == status = "running" /\ step <= Len(plan) /\ plan[step].op = name

Advance ==
    /\ step' = step + 1
    /\ status' = IF step + 1 > Len(plan) THEN "done" ELSE "running"
    /\ ops' = Append(ops, plan[step])
    /\ failed_op' = failed_op

Raise(exception) ==
    /\ step' = step
    /\ status' = "error"
    /\ ops' = Append(ops, plan[step])
    /\ failed_op' = [op |-> plan[step].op, i |-> plan[step].i, exception |-> exception]

config == <<inventories, inv_keys, listing, catalog0, runs, missing_in, skip_setup,
            skip_create_join_table, plan>>

\* main / Runner.run is entered
StartRun ==
    /\ status \in {"idle", "done", "error"}
    /\ runs < MaxRuns
    /\ runs' = runs + 1
    /\ missing_in' \in {"left", "right"}
    /\ skip_setup' \in BOOLEAN
    /\ skip_create_join_table' \in BOOLEAN
    /\ plan' = run_plan(skip_setup', skip_create_join_table')
    /\ step' = 1
    /\ status' = "running"
    /\ ops' = << >>
    /\ failed_op' = NoFailure
    /\ cursor' = {}
    /\ latest_partition' = <<NoKey, NoKey>>
    /\ UNCHANGED <<inventories, inv_keys, listing, staged, catalog, catalog0, out_file,
                   reported, rwVars, cpVars>>

\* latest_partition = inventory.get_latest_partition()
ListPartitions ==
    /\ At("list")
    /\ LET i == plan[step].i
           r == get_latest_partition(listing[i])
       IN  IF r.raised # None
           THEN Raise(r.raised) /\ UNCHANGED latest_partition
           ELSE Advance /\ latest_partition' = [latest_partition EXCEPT ![i] = r.key]
    /\ UNCHANGED <<config, staged, catalog, out_file, cursor, reported, rwVars, cpVars>>

\* inventory.download_partition_symlink(latest_partition)
DownloadSymlink ==
    /\ At("download")
    /\ latest_partition[plan[step].i] # NoKey
    /\ Advance
    /\ UNCHANGED <<config, staged, catalog, out_file, cursor, latest_partition, reported,
                   rwVars, cpVars>>

\* copy_latest_partition_to_work_area, the copies: the partition's data files
\* are now under work_path
CopyPartition ==
    /\ At("copy")
    /\ LET i == plan[step].i
           wp == work_path(inventories[i], run_work)
       IN  staged' = With(staged, wp,
                          [keys |-> inv_keys[i], manifest |-> HasManifest(wp)])
    /\ Advance
    /\ UNCHANGED <<config, catalog, out_file, cursor, latest_partition, reported,
                   rwVars, cpVars>>

\* copy_latest_partition_to_work_area, the upload of the rewritten manifest
UploadSymlink ==
    /\ At("upload")
    /\ LET wp == work_path(inventories[plan[step].i], run_work)
       IN  staged' = [staged EXCEPT ![wp].manifest = TRUE]
    /\ Advance
    /\ UNCHANGED <<config, catalog, out_file, cursor, latest_partition, reported,
                   rwVars, cpVars>>

\* DROP TABLE IF EXISTS {table_name}
DropTable ==
    /\ At("drop")
    /\ catalog' = Without(catalog, table_name(inventories[plan[step].i]))
    /\ Advance
    /\ UNCHANGED <<config, staged, out_file, cursor, latest_partition, reported,
                   rwVars, cpVars>>

\* CREATE EXTERNAL TABLE {table_name} ... LOCATION 's3://{work.bucket}/{work_path}/hive/'
CreateTable ==
    /\ At("create")
    /\ LET inv == inventories[plan[step].i]
       IN  IF table_name(inv) \in DOMAIN catalog
           THEN Raise("QueryError") /\ UNCHANGED catalog
           ELSE Advance /\ catalog' = With(catalog, table_name(inv), ExternalTable(inv))
    /\ UNCHANGED <<config, staged, out_file, cursor, latest_partition, reported,
                   rwVars, cpVars>>

\* MSCK REPAIR TABLE {table_name}
RepairTable ==
    /\ At("msck")
    /\ LET tn == table_name(inventories[plan[step].i])
       IN  IF tn \notin DOMAIN catalog
           THEN Raise("QueryError") /\ UNCHANGED catalog
           ELSE /\ Advance
                /\ catalog' = [catalog EXCEPT
                                   ![tn].partitions = HasManifest(catalog[tn].location)]
    /\ UNCHANGED <<config, staged, out_file, cursor, latest_partition, reported,
                   rwVars, cpVars>>

\* DROP TABLE IF EXISTS {join table}
DropJoinTable ==
    /\ At("join_drop")
    /\ catalog' = Without(catalog, join_table_name(join_type))
    /\ Advance
    /\ UNCHANGED <<config, staged, out_file, cursor, latest_partition, reported,
                   rwVars, cpVars>>

\* CREATE TABLE {join table} WITH (format='PARQUET') AS SELECT ...
CreateJoinTable ==
    /\ At("join_create")
    /\ LET t1 == table_name(inventories[1])
           t2 == table_name(inventories[2])
           jn == join_table_name(join_type)
       IN  IF t1 \notin DOMAIN catalog \/ t2 \notin DOMAIN catalog \/ jn \in DOMAIN catalog
           THEN Raise("QueryError") /\ UNCHANGED catalog
           ELSE /\ Advance
                /\ catalog' = With(catalog, jn,
                       [kind |-> "join",
                        rows |-> JoinRows(join_type, Rows(catalog[t1]), Rows(catalog[t2])),
                        built |-> [run |-> runs, join_type |-> join_type]])
    /\ UNCHANGED <<config, staged, out_file, cursor, latest_partition, reported,
                   rwVars, cpVars>>

\* with open(output_path, 'w') as f
OpenOutput ==
    /\ At("open")
    /\ out_file' = [exists |-> TRUE, lines |-> << >>]
    /\ Advance
    /\ UNCHANGED <<config, staged, catalog, cursor, latest_partition, reported,
                   rwVars, cpVars>>

\* The generator's first step: connect and cursor.execute(query)
ExecuteQuery ==
    /\ At("execute")
    /\ LET jn == join_table_name(join_type)
       IN  IF jn \notin DOMAIN catalog
           THEN Raise("QueryError") /\ UNCHANGED cursor
           ELSE Advance /\ cursor' = find_missing_keys(join_type, catalog[jn].rows)
    /\ UNCHANGED <<config, staged, catalog, out_file, latest_partition, reported,
                   rwVars, cpVars>>

\* for entry in ...: f.write(f'{entry[0]}\n'), in the order the engine yields
FetchRow ==
    /\ At("fetch")
    /\ \E row \in cursor :
           /\ cursor' = cursor \ {row}
           /\ out_file' = [out_file EXCEPT !.lines = Append(@, row)]
    /\ UNCHANGED <<config, staged, catalog, step, status, ops, failed_op,
                   latest_partition, reported, rwVars, cpVars>>

\* The cursor is exhausted: the file is closed and the filter returns
EndOfRows ==
    /\ At("fetch")
    /\ cursor = {}
    /\ Advance
    /\ reported' =
           IF skip_create_join_table THEN reported
           ELSE With(reported, missing_in,
                     [L |-> Rows(catalog[table_name(inventories[1])]),
                      R |-> Rows(catalog[table_name(inventories[2])]),
                      keys |-> { out_file.lines[n] : n \in DOMAIN out_file.lines }])
    /\ UNCHANGED <<config, staged, catalog, out_file, cursor, latest_partition,
                   rwVars, cpVars>>

\* OperationFails with the exception caught and the run carrying on
OperationFails_Continue ==
    /\ status = "running"
    /\ step <= Len(plan)
    /\ step' = step + 1
    /\ status' = IF step + 1 > Len(plan) THEN "done" ELSE "running"
    /\ ops' = Append(ops, plan[step])
    /\ failed_op' = [op |-> plan[step].op, i |-> plan[step].i,
                     exception |-> "RemoteOperationError"]
    /\ cursor' = {}
    /\ UNCHANGED <<config, staged, catalog, out_file, latest_partition, reported,
                   rwVars, cpVars>>

\* The object store or the query engine fails the operation: the exception
\* propagates out of Runner.run, which catches nothing
OperationFails ==
    /\ status = "running"
    /\ step <= Len(plan)
    /\ Raise("RemoteOperationError")
    /\ cursor' = {}
    /\ UNCHANGED <<config, staged, catalog, out_file, latest_partition, reported,
                   rwVars, cpVars>>

Operation ==
    \/ ListPartitions
    \/ DownloadSymlink
    \/ CopyPartition
    \/ UploadSymlink
    \/ DropTable
    \/ CreateTable
    \/ RepairTable
    \/ DropJoinTable
    \/ CreateJoinTable
    \/ OpenOutput
    \/ ExecuteQuery
    \/ FetchRow
    \/ EndOfRows

-----------------------------------------------------------------------------
(* Specification SpecRun: sequences of runs of Runner.run on two inventories *)

FullListing ==
    [IsTruncated |-> FALSE, Contents |-> {<<"d", "t", "=", "1">>, <<"d", "t", "=", "2">>}]

RightComparedBuckets == {<<"c">>, <<"a", ".", "b">>}

InitRun ==
    /\ \E cb \in RightComparedBuckets :
           inventories =
               <<[bucket |-> <<"i", "v">>, path |-> <<"p">>,
                  compared_bucket |-> <<"a", "-", "b">>],
                 [bucket |-> <<"i", "v">>, path |-> <<"q">>, compared_bucket |-> cb]>>
    /\ inv_keys \in [{1, 2} -> KeySets]
    /\ listing = <<FullListing, FullListing>>
    /\ staged = << >>
    /\ catalog = << >>
    /\ catalog0 = << >>
    /\ out_file = NoFile
    /\ cursor = {}
    /\ missing_in = None
    /\ skip_setup = FALSE
    /\ skip_create_join_table = FALSE
    /\ plan = << >>
    /\ step = 0
    /\ status = "idle"
    /\ runs = 0
    /\ latest_partition = <<NoKey, NoKey>>
    /\ ops = << >>
    /\ failed_op = NoFailure
    /\ reported = << >>
    /\ rwIdle
    /\ cpIdle

NextRun == StartRun \/ Operation \/ OperationFails

SpecRun == InitRun /\ [][NextRun]_vars

(* What the claims speak of *)
Lines(f) == { f[n] : n \in DOMAIN f }
NoDuplicates(f) == \A m, n \in DOMAIN f : f[m] = f[n] => m = n
PhaseRank(ph) == CASE ph = "SETUP" -> 1 [] ph = "JOIN" -> 2 [] ph = "EXTRACT" -> 3
Executed(o) == \E n \in DOMAIN ops : ops[n] = o
Ended == status \in {"done", "error"}

\* The rows of the two inventories' tables, as a join of this moment reads them
LeftRows == Rows(catalog[table_name(inventories[1])])
RightRows == Rows(catalog[table_name(inventories[2])])

C6_FailureAborts ==
    /\ failed_op # NoFailure =>
           /\ status = "error"
           /\ Len(ops) > 0
           /\ ops[Len(ops)] = Op(failed_op.op, failed_op.i)
           /\ \A n \in 1..(Len(ops) - 1) : ops[n] # ops[Len(ops)]
           /\ \A n \in DOMAIN ops :
                  PhaseRank(PhaseOf(ops[n])) <= PhaseRank(PhaseOf(ops[Len(ops)]))
    /\ status = "error" => failed_op # NoFailure

\* A run failed in JOIN after a complete SETUP, and nothing of EXTRACT ran
C6_Witness ==
    /\ status = "error"
    /\ failed_op # NoFailure
    /\ failed_op.op = "join_create"
    /\ Executed(Op("msck", 2))
    /\ ~Executed(Op("open", 0))

\* C7: once the query of EXTRACT has been executed, the join table it read
\* is the one built in the requested direction, its rows are where the
\* output comes from, and in a run that skips JOIN it was built by an
\* earlier run; when no table of that name exists the query fails.
C7_ReadsOwnDirection ==
    LET jn == join_table_name(join_type)
    IN  /\ (status \in {"running", "done"} /\ Executed(Op("execute", 0))) =>
               /\ jn \in DOMAIN catalog
               /\ catalog[jn].built.join_type = join_type
               /\ skip_create_join_table => catalog[jn].built.run < runs
               /\ ~skip_create_join_table => catalog[jn].built.run = runs
               /\ \A k \in Lines(out_file.lines) \cup cursor :
                      \E r \in catalog[jn].rows :
                          \/ r.table1_key = k /\ r.table2_key = NULL
                          \/ r.table2_key = k /\ r.table1_key = NULL
        /\ (Executed(Op("execute", 0)) /\ jn \notin DOMAIN catalog) =>
               status = "error" /\ failed_op.op = "execute"

\* The third run skips JOIN and reads the table its direction names while a
\* table of the other direction, with other rows, is in the catalog too
C7_Witness ==
    /\ status = "done"
    /\ skip_create_join_table
    /\ join_table_name("left") \in DOMAIN catalog
    /\ join_table_name("right") \in DOMAIN catalog
    /\ find_missing_keys("left", catalog[join_table_name("left")].rows)
           # find_missing_keys("right", catalog[join_table_name("right")].rows)
    /\ out_file.lines # << >>

\* The missing keys of this run, once its join table exists
Expected == find_missing_keys(join_type, catalog[join_table_name(join_type)].rows)

\* C10: after a run the output file holds the complete missing-key list of
\* that run, or, if the run failed, it does not hold a part of it (some of
\* the run's missing keys but not all).
C10_NoPartialOutput ==
    (Ended /\ out_file.exists /\ join_table_name(join_type) \in DOMAIN catalog) =>
        IF status = "done"
        THEN Lines(out_file.lines) = Expected /\ NoDuplicates(out_file.lines)
        ELSE ~(Lines(out_file.lines) # {} /\ Lines(out_file.lines) \subseteq Expected
                 /\ Lines(out_file.lines) # Expected)

-----------------------------------------------------------------------------
(* Specification SpecRunFair: the runs of SpecRun on one pair of            *)
(* inventories, the control thread never stopping in the middle of a run     *)

InitRunFair ==
    /\ InitRun
    /\ inv_keys = <<{"k1", "k2"}, {"k2", "k3"}>>

SpecRunFair == InitRunFair /\ [][NextRun]_vars /\ WF_vars(Operation)

SetupOps == {"list", "download", "copy", "upload", "drop", "create", "msck"}
InPhase(ph) == \E n \in DOMAIN ops : PhaseOf(ops[n]) = ph
Completed(o) ==
    \E n \in DOMAIN ops : ops[n] = o /\ (n < Len(ops) \/ failed_op = NoFailure)

C5_Order ==
    /\ \A m, n \in DOMAIN ops :
           m < n => PhaseRank(PhaseOf(ops[m])) <= PhaseRank(PhaseOf(ops[n]))
    /\ NoDuplicates(ops)
    /\ InPhase("SETUP") => ~skip_setup
    /\ InPhase("JOIN") => ~skip_create_join_table
    /\ ((InPhase("JOIN") \/ InPhase("EXTRACT")) /\ ~skip_setup) =>
           \A i \in {1, 2} : \A name \in SetupOps : Completed(Op(name, i))
    /\ (InPhase("EXTRACT") /\ ~skip_create_join_table) =>
           Completed(Op("join_drop", 0)) /\ Completed(Op("join_create", 0))
    /\ status = "done" =>
           /\ InPhase("SETUP") <=> ~skip_setup
           /\ InPhase("JOIN") <=> ~skip_create_join_table
           /\ \A name \in {"open", "execute", "fetch"} : Completed(Op(name, 0))
           /\ failed_op = NoFailure

\* C5: in every run the operations executed are those of SETUP, then JOIN,
\* then EXTRACT, no phase entered twice; SETUP is entered only if skip_setup
\* is false and JOIN only if skip_create_join_table is false, and a run that
\* ends DONE has executed exactly the phases not skipped, EXTRACT last; an
\* operation of a later phase is executed only after every operation of the
\* phases before it has returned; and a run in which no operation fails
\* reaches DONE.
C5_PhasesInOrder ==
    /\ []C5_Order
    /\ (status = "running") ~> (status = "done" \/ failed_op # NoFailure)

\* A run that skipped SETUP but not JOIN ended DONE
C5_Witness ==
    /\ status = "done"
    /\ skip_setup
    /\ ~skip_create_join_table
    /\ Len(ops) = 5
    /\ out_file.lines # << >>

-----------------------------------------------------------------------------
(* Specification SpecSetup: Compare.copy_inventories_to_work_area over the   *)
(* answers list_objects_v2 can give                                          *)

PartitionKeys ==
    { <<"d", "t", "=", "1">>, <<"d", "t", "=", "1", "0">>, <<"d", "t", "=", "2">> }

\* A truncated answer carries the keys of its page; an empty listing is
\* never truncated
Listings ==
    { r \in [IsTruncated : BOOLEAN, Contents : SUBSET PartitionKeys] :
          r.IsTruncated => r.Contents # {} }

InitSetup ==
    /\ inventories =
           <<[bucket |-> <<"i", "v">>, path |-> <<"p">>,
              compared_bucket |-> <<"a", "-", "b">>],
             [bucket |-> <<"i", "v">>, path |-> <<"q">>, compared_bucket |-> <<"c">>]>>
    /\ inv_keys = <<{"k1", "k2"}, {"k2", "k3"}>>
    /\ listing \in [{1, 2} -> Listings]
    /\ staged = << >>
    /\ catalog = << >>
    /\ catalog0 = << >>
    /\ out_file = NoFile
    /\ cursor = {}
    /\ missing_in = "right"
    /\ skip_setup = FALSE
    /\ skip_create_join_table = FALSE
    /\ plan = copy_inventories_to_work_area
    /\ step = 1
    /\ status = "running"
    /\ runs = 1
    /\ latest_partition = <<NoKey, NoKey>>
    /\ ops = << >>
    /\ failed_op = NoFailure
    /\ reported = << >>
    /\ rwIdle
    /\ cpIdle

NextSetup ==
    \/ ListPartitions
    \/ DownloadSymlink
    \/ CopyPartition
    \/ UploadSymlink
    \/ OperationFails

SpecSetup == InitSetup /\ [][NextSetup]_vars

\* list_objects_v2 answered for inventory i (the call itself did not fail)
Listed(i) ==
    /\ Executed(Op("list", i))
    /\ ~(failed_op.op = "list" /\ failed_op.i = i
           /\ failed_op.exception = "RemoteOperationError")

IsGreatest(k, S) == k \in S /\ \A j \in S \ {k} : StrLess(j, k)

\* C4 as claimed: get_latest_partition returns the greatest key of the
\* listing exactly when the listing is reported not truncated.
C4_ReturnsIffNotTruncated ==
    \A i \in {1, 2} :
        Listed(i) =>
            (IsGreatest(latest_partition[i], listing[i].Contents)
                <=> ~listing[i].IsTruncated)

\* C4, amended: get_latest_partition returns a key, the lexicographically
\* greatest of the listing, exactly when the listing is reported not
\* truncated and is not empty; otherwise it raises (the assertion on a
\* truncated listing) and no download, copy or upload for that inventory
\* follows.
C4_LatestOrRaise ==
    \A i \in {1, 2} :
        /\ Listed(i) =>
               /\ latest_partition[i] # NoKey
                      <=> (~listing[i].IsTruncated /\ listing[i].Contents # {})
               /\ latest_partition[i] # NoKey =>
                      IsGreatest(latest_partition[i], listing[i].Contents)
               /\ latest_partition[i] = NoKey =>
                      /\ status = "error"
                      /\ failed_op.op = "list" /\ failed_op.i = i
                      /\ listing[i].IsTruncated <=> failed_op.exception = "AssertionError"
        /\ \A name \in {"download", "copy", "upload"} :
               Executed(Op(name, i)) => latest_partition[i] # NoKey

\* The left inventory's latest partition, dt=2 and not dt=10, was staged;
\* the right inventory's listing was truncated and the run stopped there
C4_Witness ==
    /\ latest_partition[1] = <<"d", "t", "=", "2">>
    /\ <<"d", "t", "=", "1", "0">> \in listing[1].Contents
    /\ Executed(Op("upload", 1))
    /\ listing[2].IsTruncated
    /\ status = "error"
    /\ failed_op.exception = "AssertionError"
    /\ ~Executed(Op("download", 2))

-----------------------------------------------------------------------------
(* Specification SpecRegistrar: Inventory.create_athena_table, once or       *)
(* twice in succession, from any catalog                                     *)

\* What a catalog may hold under an inventory's table name: the table of an
\* inventory of that name, with or without partitions, or one left at
\* another location
TableDefs(name) ==
    { [ExternalTable(inventories[i]) EXCEPT !.partitions = p] :
          i \in { j \in {1, 2} : table_name(inventories[j]) = name }, p \in BOOLEAN }
        \cup { [kind |-> "external", location |-> <<"o", "l", "d">>, partitions |-> FALSE] }

OldJoinTable ==
    [kind |-> "join", rows |-> JoinRows("left", {"k1"}, {}),
     built |-> [run |-> 0, join_type |-> "left"]]

DefsFor(name) ==
    IF name = join_table_name("left") THEN {OldJoinTable} ELSE TableDefs(name)

CatalogNames ==
    {table_name(inventories[1]), table_name(inventories[2]), join_table_name("left")}

Catalogs ==
    UNION { { c \in [D -> UNION { DefsFor(n) : n \in D }] :
                  \A n \in D : c[n] \in DefsFor(n) } : D \in SUBSET CatalogNames }

\* The work bucket with the inventories in S staged, manifest included
Staging(S) ==
    [wp \in { work_path(inventories[i], run_work) : i \in S } |->
        [keys |-> {"k1"}, manifest |-> TRUE]]

InitRegistrar ==
    /\ \E cb \in RightComparedBuckets :
           inventories =
               <<[bucket |-> <<"i", "v">>, path |-> <<"p">>,
                  compared_bucket |-> <<"a", "-", "b">>],
                 [bucket |-> <<"i", "v">>, path |-> <<"q">>, compared_bucket |-> cb]>>
    /\ inv_keys = <<{"k1"}, {"k1"}>>
    /\ listing = <<FullListing, FullListing>>
    /\ staged \in { Staging(S) : S \in SUBSET {1, 2} }
    /\ catalog \in Catalogs
    /\ catalog0 = catalog
    /\ out_file = NoFile
    /\ cursor = {}
    /\ missing_in = "right"
    /\ skip_setup = FALSE
    /\ skip_create_join_table = FALSE
    /\ \E i \in {1, 2} :
           plan \in {create_athena_table(i), create_athena_table(i) \o create_athena_table(i)}
    /\ step = 1
    /\ status = "running"
    /\ runs = 1
    /\ latest_partition = <<NoKey, NoKey>>
    /\ ops = << >>
    /\ failed_op = NoFailure
    /\ reported = << >>
    /\ rwIdle
    /\ cpIdle

NextRegistrar ==
    \/ DropTable
    \/ CreateTable
    \/ RepairTable
    \/ OperationFails

SpecRegistrar == InitRegistrar /\ [][NextRegistrar]_vars

\* create_athena_table has returned once (step 4) or twice (the plan is done)
Registered == (step = 4 \/ status = "done") /\ failed_op = NoFailure

Unchanged(name) ==
    IF name \in DOMAIN catalog0
    THEN name \in DOMAIN catalog /\ catalog[name] = catalog0[name]
    ELSE name \notin DOMAIN catalog

\* The catalog held inventory i's table, over its own work_path, at the start
HeldTableOf(i) ==
    /\ table_name(inventories[i]) \in DOMAIN catalog0
    /\ catalog0[table_name(inventories[i])].location
           = work_path(inventories[i], run_work)

\* The inventory's table as create_athena_table leaves it
IsRegistered(i) ==
    LET tn == table_name(inventories[i])
        wp == work_path(inventories[i], run_work)
    IN  /\ tn \in DOMAIN catalog
        /\ catalog[tn] =
               [kind |-> "external", location |-> wp, partitions |-> HasManifest(wp)]

\* C9: from any catalog, create_athena_table run once or twice leaves the
\* inventory's table with one and the same definition, and the other
\* inventory's table, if the catalog held it, and the join tables as they
\* were.
C9_Idempotent ==
    LET i == plan[1].i
    IN  Registered =>
            /\ IsRegistered(i)
            /\ HeldTableOf(3 - i) => Unchanged(table_name(inventories[3 - i]))
            /\ Unchanged(join_table_name("left"))
            /\ Unchanged(join_table_name("right"))

\* The same, for two inventories whose compared buckets give different
\* table names
C9_IdempotentDistinctNames ==
    table_name(inventories[1]) # table_name(inventories[2]) => C9_Idempotent

=============================================================================
